---- MODULE Spec2Model ----
(***************************************************************************)
(* Student management: one SQLite table `students` (init_db.py) accessed   *)
(* by the repository functions of student_manager.py (the CLI front end)   *)
(* and by the Flask handlers of backend.py (the HTTP front end).           *)
(*                                                                         *)
(* Every repository function and every handler but one executes a single   *)
(* SQL statement on its own connection, so it is one atomic action.  The   *)
(* HTTP PUT handler executes two statements (a SELECT, then an UPDATE) on  *)
(* two connections; it is two actions and other requests interleave.       *)
(***************************************************************************)
EXTENDS Integers, Sequences, FiniteSets, TLC

\* Bounds of the model.
MaxId == 2
MaxClock == 0

(***************************************************************************)
(* Values.  A grade is a tagged value, because the HTTP front end passes   *)
(* any JSON value to SQLite: an integer n, the real n + 0.5, the string    *)
(* holding the decimal digits of n, JSON null, or no field at all.         *)
(***************************************************************************)
IntVal(n) == [t |-> "int", v |-> n]
RealVal(n) == [t |-> "real", v |-> n]
TextVal(n) == [t |-> "text", v |-> n]
NoneGrade == [t |-> "null", v |-> 0]
AbsentGrade == [t |-> "absent", v |-> 0]

\* Python None and a missing JSON field, for the two text fields.
None == "<None>"
Absent == "<absent>"

\* Names in the order of SQLite's BINARY collation.
Names == <<"Alice Johnson", "Bob Smith">>
Emails == {"alice@school.edu", "bob@school.edu"}

NameInputs == {Names[i] : i \in 1..Len(Names)}

\* The arguments of a call: every name and e-mail address with a grade in range, above the
\* range or None; one name with a grade below the range, a real and a numeric string; and a
\* None e-mail address.  The JSON bodies of a request: the same, and the bodies that lack a
\* field or all of them.
Args ==
    [name : NameInputs, email : Emails,
     grade : {IntVal(78), IntVal(92), IntVal(101), NoneGrade}]
    \cup [name : {"Alice Johnson"}, email : Emails,
          grade : {IntVal(-1), RealVal(89), TextVal(78)}]
    \cup {[name |-> "Alice Johnson", email |-> None, grade |-> IntVal(78)]}
Bodies ==
    Args \cup
    {[name |-> Absent, email |-> Absent, grade |-> AbsentGrade],
     [name |-> Absent, email |-> "alice@school.edu", grade |-> IntVal(78)],
     [name |-> "Alice Johnson", email |-> Absent, grade |-> IntVal(78)],
     [name |-> "Alice Johnson", email |-> "alice@school.edu", grade |-> AbsentGrade]}
MinGrades == {0, 78, 90, 93}
Ids == 1..MaxId

\* Twice the numeric value of a number, so that n + 0.5 stays an integer.
Twice(g) == IF g.t = "real" THEN 2 * g.v + 1 ELSE 2 * g.v

VARIABLES
    students,         \* the table: id -> [name, email, grade, created_at]
    sqlite_sequence,  \* AUTOINCREMENT: the largest rowid ever generated
    clock,            \* CURRENT_TIMESTAMP at the latest INSERT
    pending,          \* id of the PUT request between its SELECT and its UPDATE, 0 if none
    last,             \* the last operation and what its caller got
    result,           \* the rows the last query returned
    assigned          \* history: every id a row was ever stored under

vars == <<students, sqlite_sequence, clock, pending, last, result, assigned>>

Max(a, b) == IF a >= b THEN a ELSE b

RECURSIVE MaxOf(_)
MaxOf(S) == IF S = {} THEN 0 ELSE LET x == CHOOSE y \in S : TRUE IN Max(x, MaxOf(S \ {x}))

(***************************************************************************)
(* The schema (init_db.py:10-16).                                          *)
(***************************************************************************)
\* grade INTEGER: column affinity turns numeric-looking text into an integer.
Affinity(g) == IF g.t = "text" THEN IntVal(g.v) ELSE g

\* CHECK(grade >= 0 AND grade <= 100): a NULL grade makes the expression NULL, which passes.
CheckGrade(g) == g.t = "null" \/ (Twice(g) >= 0 /\ Twice(g) <= 200)

\* Mutant: INTEGER PRIMARY KEY without AUTOINCREMENT, one more than the largest rowid
\* in the table.
NewRowid_NoAutoincrement(tbl, seq) == MaxOf(DOMAIN tbl) + 1

\* id INTEGER PRIMARY KEY AUTOINCREMENT: one more than the largest rowid ever generated.
NewRowid(tbl, seq) == Max(seq, MaxOf(DOMAIN tbl)) + 1

\* Mutant: the email is compared on INSERT only, as a pre-check in create would.
EmailTaken_InsertOnly(tbl, email, self) ==
    self = 0 /\ \E i \in DOMAIN tbl : tbl[i].email = email

\* email TEXT UNIQUE: another row holds this email.
EmailTaken(tbl, email, self) == \E i \in DOMAIN tbl : i # self /\ tbl[i].email = email

\* Mutant: the schema without UNIQUE on email.
Violates_NoUnique(tbl, name, email, grade, self) ==
    \/ name = None
    \/ email = None
    \/ ~CheckGrade(Affinity(grade))

\* The constraints a row must meet to be written; a violation raises sqlite3.IntegrityError.
Violates(tbl, name, email, grade, self) ==
    \/ name = None
    \/ email = None
    \/ EmailTaken(tbl, email, self)
    \/ ~CheckGrade(Affinity(grade))

Row(name, email, grade, at) ==
    [name |-> name, email |-> email, grade |-> Affinity(grade), created_at |-> at]

\* INSERT INTO students (name, email, grade) VALUES (?, ?, ?)
Insert(tbl, id, name, email, grade, at) ==
    [i \in DOMAIN tbl \cup {id} |-> IF i = id THEN Row(name, email, grade, at) ELSE tbl[i]]

\* UPDATE students SET name = ?, email = ?, grade = ? WHERE id = ?
Update(tbl, id, name, email, grade) ==
    [i \in DOMAIN tbl |->
        IF i = id THEN Row(name, email, grade, tbl[i].created_at) ELSE tbl[i]]

\* Mutant: the DELETE is never committed.
Delete_NoCommit(tbl, id) == tbl

\* DELETE FROM students WHERE id = ?
Delete(tbl, id) == [i \in DOMAIN tbl \ {id} |-> tbl[i]]

\* SELECT * FROM students WHERE id = ?, as a dictionary; the empty set stands for no row.
SelectById(tbl, id) ==
    IF id \in DOMAIN tbl
    THEN {[id |-> id, name |-> tbl[id].name, email |-> tbl[id].email,
           grade |-> tbl[id].grade, created_at |-> tbl[id].created_at]}
    ELSE {}

(***************************************************************************)
(* The queries.  SQL leaves the order of rows with equal sort keys open,   *)
(* so a SELECT ... ORDER BY is the set of the sequences it may return.     *)
(***************************************************************************)
Dict(tbl, id) == CHOOSE d \in SelectById(tbl, id) : TRUE

SetToSeq(S) == IF S = {} THEN << >> ELSE <<CHOOSE x \in S : TRUE>>

Orderings(S) ==
    {s \in [1..Cardinality(S) -> S] : \A i, j \in 1..Cardinality(S) : i # j => s[i] # s[j]}

NameRank(name) == CHOOSE i \in 1..Len(Names) : Names[i] = name

\* SELECT * FROM students ORDER BY name
SelectOrderByName(tbl) ==
    {[k \in 1..Len(s) |-> Dict(tbl, s[k])] :
        s \in {p \in Orderings(DOMAIN tbl) :
                 \A k \in 1..(Len(p) - 1) :
                    NameRank(tbl[p[k]].name) <= NameRank(tbl[p[k + 1]].name)}}

\* Mutant: grade > ?
GradeAbove(g, min_grade) == g.t # "null" /\ Twice(g) > 2 * min_grade

\* grade >= ?  (a NULL grade compares as NULL, which is not true)
GradeAtLeast(g, min_grade) == g.t # "null" /\ Twice(g) >= 2 * min_grade

\* SELECT * FROM students WHERE grade >= ? ORDER BY grade DESC
SelectMinGrade(tbl, min_grade) ==
    LET hit == {i \in DOMAIN tbl : GradeAtLeast(tbl[i].grade, min_grade)} IN
    {[k \in 1..Len(s) |-> Dict(tbl, s[k])] :
        s \in {p \in Orderings(hit) :
                 \A k \in 1..(Len(p) - 1) :
                    Twice(tbl[p[k]].grade) >= Twice(tbl[p[k + 1]].grade)}}

\* The CASE WHEN tests of the four buckets, on twice the grade; none is true of NULL.
A_Test(g2) == g2 >= 180
B_Test(g2) == g2 >= 160 /\ g2 < 180
C_Test(g2) == g2 >= 140 /\ g2 < 160
F_Test(g2) == g2 < 140

RECURSIVE SumTwice(_, _)
SumTwice(tbl, S) ==
    IF S = {} THEN 0
    ELSE LET i == CHOOSE x \in S : TRUE IN Twice(tbl[i].grade) + SumTwice(tbl, S \ {i})

\* The aggregate of student_manager.py:72-83 and backend.py:131-142.  AVG is kept as
\* twice the sum and the count of the non-NULL grades; MAX and MIN are NULL without one.
Statistics(tbl) ==
    LET graded == {i \in DOMAIN tbl : tbl[i].grade.t # "null"}
        \* COUNT(CASE WHEN ... THEN 1 END): the rows the test is true of.
        twice(i) == Twice(tbl[i].grade)
    IN
    [total_students |-> Cardinality(DOMAIN tbl),
     average_grade |-> [twice_sum |-> SumTwice(tbl, graded), count |-> Cardinality(graded)],
     highest_grade |->
        IF graded = {} THEN NoneGrade
        ELSE tbl[CHOOSE i \in graded :
                    \A j \in graded : Twice(tbl[i].grade) >= Twice(tbl[j].grade)].grade,
     lowest_grade |->
        IF graded = {} THEN NoneGrade
        ELSE tbl[CHOOSE i \in graded :
                    \A j \in graded : Twice(tbl[i].grade) <= Twice(tbl[j].grade)].grade,
     a_students |-> Cardinality({i \in graded : A_Test(twice(i))}),
     b_students |-> Cardinality({i \in graded : B_Test(twice(i))}),
     c_students |-> Cardinality({i \in graded : C_Test(twice(i))}),
     failing_students |-> Cardinality({i \in graded : F_Test(twice(i))})]

\* Python's `0 <= grade <= 100`: raises TypeError on None and on a string.
PyComparable(g) == g.t \in {"int", "real"}
PyInRange(g) == 0 <= Twice(g) /\ Twice(g) <= 200

(***************************************************************************)
(* What the caller of an operation gets.  status is the HTTP response code *)
(* (0 for a repository function), msg the error description of the         *)
(* response or the type of the exception that left the function, id the    *)
(* returned lastrowid, ok the returned truth value (for a handler: a 2xx   *)
(* response), and sql tells that the operation's INSERT, UPDATE or DELETE  *)
(* statement was executed.                                                 *)
(***************************************************************************)
Outcome(op, front, args, status, msg, id, ok, sql) ==
    [op |-> op, front |-> front, args |-> args, status |-> status, msg |-> msg,
     id |-> id, ok |-> ok, sql |-> sql]

NoArgs == [none |-> TRUE]
Person(name, email, grade) == [name |-> name, email |-> email, grade |-> grade]
Change(student_id, name, email, grade) ==
    [student_id |-> student_id, name |-> name, email |-> email, grade |-> grade]
Key(student_id) == [student_id |-> student_id]

\* No operation has an outcome its caller has yet to receive.
Idle == Outcome("", "", NoArgs, 0, "", 0, FALSE, FALSE)

\* DEFAULT CURRENT_TIMESTAMP: the time of an INSERT is not before that of the latest one.
Now == clock..MaxClock

Init ==
    /\ students = << >>
    /\ sqlite_sequence = 0
    /\ clock = 0
    /\ pending = 0
    /\ last = Idle
    /\ result = << >>
    /\ assigned = {}

\* The caller receives the outcome.  last and result are what the caller of the latest
\* operation sees; no operation reads them, and each is recorded by the step that
\* executes the operation's statement and dropped here, before the next operation's.
Return ==
    /\ last # Idle
    /\ last' = Idle
    /\ result' = << >>
    /\ UNCHANGED <<students, sqlite_sequence, clock, pending, assigned>>

(***************************************************************************)
(* student_manager.py: the repository functions the CLI menu calls.  An    *)
(* exception that leaves the function is recorded in msg; main() prints it *)
(* and goes on.                                                            *)
(***************************************************************************)
add_student(name, email, grade) ==
    LET raise(e, sql) ==
            /\ last' = Outcome("add_student", "cli", Person(name, email, grade), 0, e, 0,
                               FALSE, sql)
            /\ UNCHANGED <<students, sqlite_sequence, clock, assigned>>
    IN
    /\ last = Idle
    /\ result' = << >>
    /\ UNCHANGED pending
    /\ IF ~PyComparable(grade) THEN raise("TypeError", FALSE)
       ELSE IF ~PyInRange(grade) THEN raise("ValueError", FALSE)
       ELSE IF Violates(students, name, email, grade, 0) THEN raise("IntegrityError", TRUE)
       ELSE LET id == NewRowid(students, sqlite_sequence) IN
            /\ id <= MaxId
            /\ \E now \in Now : /\ clock' = now
                                /\ students' = Insert(students, id, name, email, grade, now)
            /\ sqlite_sequence' = id
            /\ assigned' = assigned \cup {id}
            /\ last' = Outcome("add_student", "cli", Person(name, email, grade), 0, "", id,
                               TRUE, TRUE)

update_student(student_id, name, email, grade) ==
    LET return(e, ok, sql) ==
            last' = Outcome("update_student", "cli", Change(student_id, name, email, grade),
                            0, e, 0, ok, sql)
    IN
    /\ last = Idle
    /\ result' = << >>
    /\ UNCHANGED <<clock, pending, sqlite_sequence, assigned>>
    /\ IF ~PyComparable(grade) THEN return("TypeError", FALSE, FALSE) /\ UNCHANGED students
       ELSE IF ~PyInRange(grade) THEN return("ValueError", FALSE, FALSE) /\ UNCHANGED students
       ELSE IF student_id \notin DOMAIN students
       THEN return("", FALSE, TRUE) /\ UNCHANGED students
       ELSE IF Violates(students, name, email, grade, student_id)
       THEN return("IntegrityError", FALSE, TRUE) /\ UNCHANGED students
       ELSE /\ students' = Update(students, student_id, name, email, grade)
            /\ return("", TRUE, TRUE)

delete_student(student_id) ==
    /\ last = Idle
    /\ students' = Delete(students, student_id)
    /\ last' = Outcome("delete_student", "cli", Key(student_id), 0, "", 0,
                       student_id \in DOMAIN students, TRUE)
    /\ result' = << >>
    /\ UNCHANGED <<clock, pending, sqlite_sequence, assigned>>

get_all_students ==
    /\ last = Idle
    /\ result' \in SelectOrderByName(students)
    /\ last' = Outcome("get_all_students", "cli", NoArgs, 0, "", 0, TRUE, FALSE)
    /\ UNCHANGED <<students, sqlite_sequence, clock, pending, assigned>>

get_student_by_id(student_id) ==
    /\ last = Idle
    /\ result' = SetToSeq(SelectById(students, student_id))
    /\ last' = Outcome("get_student_by_id", "cli", Key(student_id), 0, "", 0,
                       student_id \in DOMAIN students, FALSE)
    /\ UNCHANGED <<students, sqlite_sequence, clock, pending, assigned>>

filter_students_by_grade(min_grade) ==
    /\ last = Idle
    /\ result' \in SelectMinGrade(students, min_grade)
    /\ last' = Outcome("filter_students_by_grade", "cli", [min_grade |-> min_grade], 0, "", 0,
                       TRUE, FALSE)
    /\ UNCHANGED <<students, sqlite_sequence, clock, pending, assigned>>

get_statistics ==
    /\ last = Idle
    /\ result' = <<Statistics(students)>>
    /\ last' = Outcome("get_statistics", "cli", NoArgs, 0, "", 0, TRUE, FALSE)
    /\ UNCHANGED <<students, sqlite_sequence, clock, pending, assigned>>

(***************************************************************************)
(* init_db.py:19-33: INSERT OR IGNORE of the sample rows (the first two of *)
(* the five), in one transaction.  A row that violates a constraint is     *)
(* skipped, and the rowid generated for it is consumed all the same.       *)
(***************************************************************************)
sample_students ==
    << Person("Alice Johnson", "alice@school.edu", IntVal(92)),
       Person("Bob Smith", "bob@school.edu", IntVal(78)) >>

\* The tables, sequence values and times the rows may leave, inserted from time `at` on.
RECURSIVE InsertOrIgnore(_, _, _, _)
InsertOrIgnore(tbl, seq, rows, at) ==
    IF rows = << >>
    THEN {[tbl |-> tbl, seq |-> seq, clock |-> at]}
    ELSE LET r == Head(rows)
             id == NewRowid(tbl, seq)
         IN  UNION {IF Violates(tbl, r.name, r.email, r.grade, 0)
                    THEN InsertOrIgnore(tbl, id, Tail(rows), now)
                    ELSE InsertOrIgnore(Insert(tbl, id, r.name, r.email, r.grade, now), id,
                                        Tail(rows), now) : now \in at..MaxClock}

init_db ==
    /\ last = Idle
    /\ \E done \in InsertOrIgnore(students, sqlite_sequence, sample_students, clock) :
          /\ done.seq <= MaxId
          /\ students' = done.tbl
          /\ sqlite_sequence' = done.seq
          /\ clock' = done.clock
          /\ assigned' = assigned \cup DOMAIN done.tbl
    /\ last' = Outcome("init_db", "cli", NoArgs, 0, "", 0, TRUE, TRUE)
    /\ result' = << >>
    /\ UNCHANGED pending

(***************************************************************************)
(* backend.py: the HTTP handlers.  An exception no handler catches is a    *)
(* 500 response whose msg is the exception's type.                         *)
(***************************************************************************)
\* The decorator of backend.py:25-36; "" when the body passes.
validate_json(name, email, grade) ==
    IF name = Absent /\ email = Absent /\ grade = AbsentGrade THEN "No JSON data provided"
    ELSE IF name = Absent THEN "Missing required field: name"
    ELSE IF email = Absent THEN "Missing required field: email"
    ELSE IF grade = AbsentGrade THEN "Missing required field: grade"
    ELSE ""

api_create_student(name, email, grade) ==
    LET abort(status, e, sql) ==
            /\ last' = Outcome("create_student", "http", Person(name, email, grade), status,
                               e, 0, FALSE, sql)
            /\ UNCHANGED <<students, sqlite_sequence, clock, assigned>>
    IN
    /\ last = Idle
    /\ result' = << >>
    /\ UNCHANGED pending
    /\ IF validate_json(name, email, grade) # ""
       THEN abort(400, validate_json(name, email, grade), FALSE)
       ELSE IF ~PyComparable(grade) THEN abort(500, "TypeError", FALSE)
       ELSE IF ~PyInRange(grade) THEN abort(400, "Grade must be between 0 and 100", FALSE)
       ELSE IF Violates(students, name, email, grade, 0)
       THEN abort(400, "Email already exists", TRUE)
       ELSE LET id == NewRowid(students, sqlite_sequence) IN
            /\ id <= MaxId
            /\ \E now \in Now : /\ clock' = now
                                /\ students' = Insert(students, id, name, email, grade, now)
            /\ sqlite_sequence' = id
            /\ assigned' = assigned \cup {id}
            /\ last' = Outcome("create_student", "http", Person(name, email, grade), 201,
                               "Student created successfully", id, TRUE, TRUE)

\* backend.py:97-105: the decorator, then SELECT id FROM students WHERE id = ?
api_update_student_select(student_id, name, email, grade) ==
    LET abort(status, e) ==
            /\ last' = Outcome("update_student", "http",
                               Change(student_id, name, email, grade), status, e, 0, FALSE,
                               FALSE)
            /\ UNCHANGED pending
    IN
    /\ last = Idle
    /\ pending = 0
    /\ result' = << >>
    /\ UNCHANGED <<students, sqlite_sequence, clock, assigned>>
    /\ IF validate_json(name, email, grade) # ""
       THEN abort(400, validate_json(name, email, grade))
       ELSE IF SelectById(students, student_id) = {}
       THEN abort(404, "Student not found")
       ELSE /\ last' = Outcome("update_student_select", "http", Key(student_id), 0, "", 0,
                               TRUE, FALSE)
            /\ pending' = student_id

\* backend.py:107-114: the UPDATE on a second connection; its rowcount is not read.
\* The body is the one the decorator accepted: it does not depend on the table, so it
\* is drawn here instead of being carried in the state.
api_update_student_update(name, email, grade) ==
    LET respond(status, e, ok) ==
            last' = Outcome("update_student", "http", Change(pending, name, email, grade),
                            status, e, 0, ok, TRUE)
    IN
    /\ last = Idle
    /\ pending # 0
    /\ validate_json(name, email, grade) = ""
    /\ pending' = 0
    /\ result' = << >>
    /\ UNCHANGED <<sqlite_sequence, clock, assigned>>
    /\ IF pending \notin DOMAIN students
       THEN respond(200, "Student updated successfully", TRUE) /\ UNCHANGED students
       ELSE IF Violates(students, name, email, grade, pending)
       THEN respond(500, "IntegrityError", FALSE) /\ UNCHANGED students
       ELSE /\ students' = Update(students, pending, name, email, grade)
            /\ respond(200, "Student updated successfully", TRUE)

api_delete_student(student_id) ==
    /\ last = Idle
    /\ students' = Delete(students, student_id)
    /\ last' = IF student_id \in DOMAIN students
               THEN Outcome("delete_student", "http", Key(student_id), 200,
                            "Student deleted successfully", 0, TRUE, TRUE)
               ELSE Outcome("delete_student", "http", Key(student_id), 404,
                            "Student not found", 0, FALSE, TRUE)
    /\ result' = << >>
    /\ UNCHANGED <<clock, pending, sqlite_sequence, assigned>>

\* backend.py:40-53; has_min is FALSE when min_grade is missing or is no integer.
api_get_students(has_min, min_grade) ==
    /\ last = Idle
    /\ result' \in IF has_min THEN SelectMinGrade(students, min_grade)
                   ELSE SelectOrderByName(students)
    /\ last' = Outcome("get_students", "http",
                       [has_min |-> has_min, min_grade |-> IF has_min THEN min_grade ELSE 0],
                       200, "", 0, TRUE, FALSE)
    /\ UNCHANGED <<students, sqlite_sequence, clock, pending, assigned>>

api_get_student(student_id) ==
    /\ last = Idle
    /\ result' = SetToSeq(SelectById(students, student_id))
    /\ last' = IF SelectById(students, student_id) = {}
               THEN Outcome("get_student", "http", Key(student_id), 404, "Student not found",
                            0, FALSE, FALSE)
               ELSE Outcome("get_student", "http", Key(student_id), 200, "", 0, TRUE, FALSE)
    /\ UNCHANGED <<students, sqlite_sequence, clock, pending, assigned>>

api_get_statistics ==
    /\ last = Idle
    /\ result' = <<Statistics(students)>>
    /\ last' = Outcome("get_statistics", "http", NoArgs, 200, "", 0, TRUE, FALSE)
    /\ UNCHANGED <<students, sqlite_sequence, clock, pending, assigned>>

Next ==
    \/ Return
    \/ init_db
    \/ \E a \in Args : add_student(a.name, a.email, a.grade)
    \/ \E i \in Ids, a \in Args : update_student(i, a.name, a.email, a.grade)
    \/ \E i \in Ids : delete_student(i)
    \/ get_all_students
    \/ \E i \in Ids : get_student_by_id(i)
    \/ \E m \in MinGrades : filter_students_by_grade(m)
    \/ get_statistics
    \/ \E d \in Bodies : api_create_student(d.name, d.email, d.grade)
    \/ \E i \in Ids, d \in Bodies : api_update_student_select(i, d.name, d.email, d.grade)
    \/ \E d \in Bodies : api_update_student_update(d.name, d.email, d.grade)
    \/ \E i \in Ids : api_delete_student(i)
    \/ \E b \in BOOLEAN, m \in MinGrades : api_get_students(b, m)
    \/ \E i \in Ids : api_get_student(i)
    \/ api_get_statistics

Spec == Init /\ [][Next]_vars

(***************************************************************************)
(* The outcomes the specification names.                                   *)
(***************************************************************************)
IsCreate(o) == o.op \in {"add_student", "create_student"}
IsUpdate(o) == o.op = "update_student"
IsDelete(o) == o.op = "delete_student"
IsFilter(o) ==
    \/ o.op = "filter_students_by_grade"
    \/ o.op = "get_students" /\ o.args.has_min
IsListAll(o) ==
    \/ o.op = "get_all_students"
    \/ o.op = "get_students" /\ ~o.args.has_min

InvalidGrade(o) ==
    \/ o.front = "cli" /\ o.msg = "ValueError"
    \/ o.front = "http" /\ o.status = 400 /\ o.msg = "Grade must be between 0 and 100"
DuplicateEmail(o) ==
    \/ o.front = "cli" /\ o.msg = "IntegrityError"
    \/ o.front = "http" /\ o.status = 400 /\ o.msg = "Email already exists"
NotFound(o) ==
    \/ o.front = "cli" /\ o.msg = "" /\ ~o.ok
    \/ o.front = "http" /\ o.status = 404
Succeeded(o) ==
    \/ o.front = "cli" /\ o.msg = "" /\ o.ok
    \/ o.front = "http" /\ o.status \in {200, 201}
IsError(o) ==
    \/ o.front = "cli" /\ o.msg # ""
    \/ o.front = "http" /\ o.status >= 400

IsNumber(g) == g.t \in {"int", "real"}
InRange(g) == IsNumber(g) /\ 0 <= Twice(g) /\ Twice(g) <= 200
OutOfRange(g) == IsNumber(g) /\ ~(0 <= Twice(g) /\ Twice(g) <= 200)
\* The call or the request body gives all three fields.
Complete(args) == args.name # Absent /\ args.email # Absent /\ args.grade # AbsentGrade
SomeRowHasEmail(tbl, email) == \E i \in DOMAIN tbl : tbl[i].email = email

\* C1: every persisted row has a grade that is an integer with 0 <= grade <= 100.
C1_GradeIsIntegerInRange ==
    \A i \in DOMAIN students :
        /\ students[i].grade.t = "int"
        /\ 0 <= students[i].grade.v
        /\ students[i].grade.v <= 100

\* C2: no two persisted students share an email, whatever creates and updates of the
\* two front ends interleave.
C2_UniqueEmail ==
    \A i, j \in DOMAIN students : i # j => students[i].email # students[j].email

\* A second writer was refused the email another row holds, with both emails in use.
C2_Witness ==
    /\ IsUpdate(last)
    /\ last.msg = "IntegrityError"
    /\ Cardinality(DOMAIN students) = 2
    /\ \E i \in DOMAIN students :
          i # last.args.student_id /\ students[i].email = last.args.email

\* C3: a create with a grade in range and an email some row holds fails with
\* DuplicateEmail and leaves the table as it was.
C3_DuplicateCreateRejected ==
    [][(IsCreate(last') /\ Complete(last'.args) /\ InRange(last'.args.grade)
            /\ SomeRowHasEmail(students, last'.args.email))
         => (DuplicateEmail(last') /\ students' = students)]_vars

C3_Witness ==
    /\ IsCreate(last)
    /\ Complete(last.args)
    /\ InRange(last.args.grade)
    /\ SomeRowHasEmail(students, last.args.email)
    /\ DuplicateEmail(last)
    /\ last.front = "http"

\* C4: a create or an update with a grade outside [0,100] fails with InvalidGrade before
\* its write statement is executed, and the table is as it was.  (An update of an id
\* without a row that answers "not found" is not held against the claim.)
C4_OutOfRangeRejected ==
    [][((IsCreate(last') \/ IsUpdate(last')) /\ Complete(last'.args)
            /\ OutOfRange(last'.args.grade) /\ ~(IsUpdate(last') /\ NotFound(last')))
         => (InvalidGrade(last') /\ ~last'.sql /\ students' = students)]_vars

\* C5: a successful create returns an id no row was ever stored under, and getById of
\* that id then returns the name, email and grade given.
C5_CreateFreshIdAndReadBack ==
    [][(IsCreate(last') /\ Succeeded(last'))
         => /\ last'.id \notin assigned
            /\ SelectById(students', last'.id) # {}
            /\ \A d \in SelectById(students', last'.id) :
                  /\ d.id = last'.id
                  /\ d.name = last'.args.name
                  /\ d.email = last'.args.email
                  /\ d.grade = last'.args.grade]_vars

\* A create succeeded after the row of an earlier id had been deleted.
C5_Witness ==
    /\ IsCreate(last)
    /\ Succeeded(last)
    /\ last.id \in DOMAIN students
    /\ \E i \in assigned : i \notin DOMAIN students

\* C6: the four bucket counts of statistics() add up to total_students.
C6_BucketsSumToTotal ==
    LET stats == Statistics(students) IN
    stats.a_students + stats.b_students + stats.c_students + stats.failing_students
        = stats.total_students

\* C7: an update reports "updated" only if the row existed when the write took effect
\* and was overwritten by it; without such a row (and with a grade in range) it reports
\* "not found" and the table gains no row.
C7_UpdatedOnlyIfRowExisted ==
    [][IsUpdate(last')
         => /\ Succeeded(last') =>
                 /\ last'.args.student_id \in DOMAIN students
                 /\ last'.args.student_id \in DOMAIN students'
            /\ (last'.args.student_id \notin DOMAIN students /\ Complete(last'.args)
                    /\ InRange(last'.args.grade)) =>
                 /\ NotFound(last')
                 /\ students' = students]_vars

\* C8 as claimed: delete removes the row and says so; without a row it reports that no
\* row was removed, which is no error, and the table is as it was.
C8_DeleteOfMissingIsNoError ==
    [][IsDelete(last')
         => IF last'.args.student_id \in DOMAIN students
            THEN /\ Succeeded(last')
                 /\ students' = [i \in DOMAIN students \ {last'.args.student_id} |-> students[i]]
            ELSE /\ ~IsError(last')
                 /\ ~last'.ok
                 /\ students' = students]_vars

\* C8 amended: delete removes the row and says so; without a row the repository function
\* returns False and the HTTP handler answers 404 "Student not found", and in both
\* cases the table is as it was; deleting the id again changes nothing.
C8_DeleteIdempotent ==
    [][IsDelete(last')
         => /\ IF last'.args.student_id \in DOMAIN students
               THEN /\ Succeeded(last')
                    /\ students' =
                         [i \in DOMAIN students \ {last'.args.student_id} |-> students[i]]
               ELSE /\ students' = students
                    /\ ~last'.ok
                    /\ last'.front = "cli" => (last'.msg = "" /\ ~IsError(last'))
                    /\ last'.front = "http" =>
                         (last'.status = 404 /\ last'.msg = "Student not found")
            /\ Delete(students', last'.args.student_id) = students']_vars

\* A delete of an id whose row an earlier delete removed.
C8_Witness ==
    /\ IsDelete(last)
    /\ NotFound(last)
    /\ last.args.student_id \in assigned
    /\ last.args.student_id \notin DOMAIN students
    /\ students # << >>

\* C9: an update that reports success has set the name, email and grade of the row with
\* that id to the values given (the grade as the column stores it), has left the row's
\* created_at and every other row unchanged, and has left the number of rows unchanged.
C9_UpdateFrame ==
    [][(IsUpdate(last') /\ Succeeded(last'))
         => LET id == last'.args.student_id IN
            /\ DOMAIN students' = DOMAIN students
            /\ id \in DOMAIN students'
            /\ students'[id].name = last'.args.name
            /\ students'[id].email = last'.args.email
            /\ students'[id].grade = Affinity(last'.args.grade)
            /\ students'[id].created_at = students[id].created_at
            /\ \A j \in DOMAIN students : j # id => students'[j] = students[j]]_vars

\* C10: list(minGrade) returns exactly the rows with grade >= minGrade, each once and as
\* stored, by non-increasing grade; list() returns every row, each once and as stored,
\* by ascending name; neither is an error and neither changes the table.
ReturnsExactly(rows, ids, tbl) ==
    /\ Len(rows) = Cardinality(ids)
    /\ {rows[k].id : k \in 1..Len(rows)} = ids
    /\ \A k \in 1..Len(rows) :
          /\ rows[k].name = tbl[rows[k].id].name
          /\ rows[k].email = tbl[rows[k].id].email
          /\ rows[k].grade = tbl[rows[k].id].grade
          /\ rows[k].created_at = tbl[rows[k].id].created_at

C10_ListExactAndOrdered ==
    [][/\ IsFilter(last') =>
            /\ students' = students
            /\ ~IsError(last')
            /\ ReturnsExactly(result',
                   {i \in DOMAIN students :
                       /\ IsNumber(students[i].grade)
                       /\ Twice(students[i].grade) >= 2 * last'.args.min_grade},
                   students)
            /\ \A k \in 1..(Len(result') - 1) :
                  Twice(result'[k].grade) >= Twice(result'[k + 1].grade)
       /\ IsListAll(last') =>
            /\ students' = students
            /\ ~IsError(last')
            /\ ReturnsExactly(result', DOMAIN students, students)
            /\ \A k \in 1..(Len(result') - 1) :
                  \E a, b \in 1..Len(Names) :
                      /\ Names[a] = result'[k].name
                      /\ Names[b] = result'[k + 1].name
                      /\ a <= b]_vars

\* A filter returned two rows of different grades.
C10_Witness ==
    /\ IsFilter(last)
    /\ Len(result) = 2
    /\ result[1].grade # result[2].grade
====
